---- MODULE Spec2Model ----
(***************************************************************************)
(* The image codec of Stealthy-Communicator (src/utils/steganography.ts):  *)
(* encodeMessage frames a message between "<<START>>" and "<<END>>",       *)
(* expands it to a bit string and writes the bits into the least           *)
(* significant bits of the red, green and blue bytes of an RGBA buffer;    *)
(* decodeMessage reads those bits back and searches the decoded text for   *)
(* the two markers.                                                        *)
(*                                                                         *)
(* Text is a sequence of UTF-16 code units (integers), a bit string is a   *)
(* sequence of 0/1, the pixel buffer is a sequence of bytes whose element  *)
(* i+1 is data[i] of the source.                                           *)
(*                                                                         *)
(* The StealthyEncoder component (src/App.tsx) is modelled by its state    *)
(* hooks, its event handlers and the continuations of its two asynchronous *)
(* handlers; the codecs it awaits are operations of its environment.       *)
(***************************************************************************)
EXTENDS Integers, Sequences, FiniteSets, TLC

VARIABLES
    width, height,      \* image.width, image.height
    orig,               \* the pixels of the source image (never written)
    data,               \* imageData.data, the working copy of the canvas
    message,            \* the message argument of encodeMessage
    binaryMessage,      \* encodeMessage: the framed bit string
    messageBitIndex,    \* encodeMessage: the bit cursor
    pixelIndex,         \* encodeMessage: outer loop variable
    channel,            \* encodeMessage: inner loop variable
    encStatus,          \* "none", "resolved" or "rejected"
    decBinaryMessage,   \* decodeMessage: the accumulated bit string
    decPixelIndex,      \* decodeMessage: outer loop variable
    decChannel,         \* decodeMessage: inner loop variable
    decodeResult,       \* what decodeMessage resolved with
    pc,                 \* the position of the running call
    text,               \* marker search alone: the decoded text
    searchResult,       \* marker search alone: its outcome
    \* the state of the StealthyEncoder component (src/App.tsx)
    activeTab,              \* "encode" or "decode"
    mediaType,              \* "image", "audio" or "video"
    uiMessage,              \* the state "message" of the component
    selectedFile,           \* a file or NoFile
    selectedFileExtension,  \* an extension or NULL
    previewUrl,             \* the file the object URL refers to, or NoFile
    encodedMediaUrl,        \* what the encoded URL was made from, or NoUrl
    decodedMessage,         \* Null or Found(m)
    isProcessing,
    error,                  \* a text or NULL
    runs                    \* the handleEncode / handleDecode calls in flight

appVars == <<activeTab, mediaType, uiMessage, selectedFile,
             selectedFileExtension, previewUrl, encodedMediaUrl,
             decodedMessage, isProcessing, error, runs>>

codecVars == <<width, height, orig, data, message, binaryMessage,
               messageBitIndex, pixelIndex, channel, encStatus,
               decBinaryMessage, decPixelIndex, decChannel, decodeResult, pc,
               text, searchResult>>

vars == <<width, height, orig, data, message, binaryMessage, messageBitIndex,
          pixelIndex, channel, encStatus, decBinaryMessage, decPixelIndex,
          decChannel, decodeResult, pc, text, searchResult, activeTab,
          mediaType, uiMessage, selectedFile, selectedFileExtension,
          previewUrl, encodedMediaUrl, decodedMessage, isProcessing, error,
          runs>>

-----------------------------------------------------------------------------
(* Bounds of the model *)

MaxMsgLen == 2

MaxWidth == 48

-----------------------------------------------------------------------------
(* Program constants *)

\* "<<START>>"
START == <<60, 60, 83, 84, 65, 82, 84, 62, 62>>

\* "<<END>>"
END == <<60, 60, 69, 78, 68, 62, 62>>

usableChannelsPerPixel == 3

MaxScanPixels == 100000

-----------------------------------------------------------------------------
(* Results of decodeMessage and of the marker search *)

Pending == [kind |-> "pending", value |-> <<>>]

Null == [kind |-> "null", value |-> <<>>]

Found(m) == [kind |-> "message", value |-> m]

-----------------------------------------------------------------------------
(* String helpers, as the JavaScript built-ins compute them *)

RECURSIVE ToBinary(_)
\* Number.prototype.toString(2) of a non-negative integer: no leading zeros.
ToBinary(n) == IF n < 2 THEN <<n>> ELSE ToBinary(n \div 2) \o <<n % 2>>

\* String.prototype.padStart(8, "0"): pads on the left, never truncates.
PadStart8(s) ==
    IF Len(s) >= 8 THEN s ELSE [i \in 1..(8 - Len(s)) |-> 0] \o s

\* charCodeAt(i).toString(2).padStart(8, "0")
CharBits(c) == PadStart8(ToBinary(c))

RECURSIVE ParseInt2(_)
\* parseInt(byte, 2) of a string of binary digits
ParseInt2(byte) ==
    IF byte = <<>> THEN 0
    ELSE 2 * ParseInt2(SubSeq(byte, 1, Len(byte) - 1)) + byte[Len(byte)]

\* String.prototype.indexOf(pat): the first 0-based offset, or -1.
IndexOf(t, pat) ==
    LET hits == {i \in 0..(Len(t) - Len(pat)) :
                    SubSeq(t, i + 1, i + Len(pat)) = pat}
    IN IF hits = {} THEN -1
       ELSE CHOOSE i \in hits : \A j \in hits : i <= j

\* String.prototype.includes(pat)
Includes(t, pat) == IndexOf(t, pat) # -1

\* String.prototype.substring(a, b) for 0 <= a <= b <= length
Substring(t, a, b) == SubSeq(t, a + 1, b)

-----------------------------------------------------------------------------
(* encodeMessage: framing *)

messageWithMarker(m) == START \o m \o END

RECURSIVE FrameBits(_)
\* the loop that appends each character's binary string to binaryMessage
FrameBits(s) ==
    IF s = <<>> THEN <<>>
    ELSE FrameBits(SubSeq(s, 1, Len(s) - 1)) \o CharBits(s[Len(s)])

\* image.width * image.height * 3, counting alpha as well
totalUsableBits_WithAlpha(w, h) == (w * h) * 4

totalUsableBits(w, h) == (w * h) * usableChannelsPerPixel

\* a capacity test that also rejects an exact fit
TooLarge_OffByOne(bits, w, h) == Len(bits) >= totalUsableBits(w, h)

\* binaryMessage.length > totalUsableBits
TooLarge(bits, w, h) == Len(bits) > totalUsableBits(w, h)

-----------------------------------------------------------------------------
(* decodeMessage: text reconstruction and marker search *)

\* one character per complete group of 8 bits; an incomplete last group is
\* dropped
extractTextFromBinary(binary) ==
    [i \in 1..(Len(binary) \div 8) |->
        ParseInt2(SubSeq(binary, 8 * (i - 1) + 1, 8 * i))]

\* a marker search that takes "<<START>>" to be eight characters long
MarkerSearch_ShortStart(extractedText) ==
    IF Includes(extractedText, START) /\ Includes(extractedText, END)
    THEN LET startIndex == IndexOf(extractedText, START) + 8
             endIndex == IndexOf(extractedText, END)
         IN IF endIndex > startIndex
            THEN Found(Substring(extractedText, startIndex, endIndex))
            ELSE Null
    ELSE Null

\* a marker search that accepts an end marker right at the start offset
MarkerSearch_AllowEmpty(extractedText) ==
    IF Includes(extractedText, START) /\ Includes(extractedText, END)
    THEN LET startIndex == IndexOf(extractedText, START) + 9
             endIndex == IndexOf(extractedText, END)
         IN IF endIndex >= startIndex
            THEN Found(Substring(extractedText, startIndex, endIndex))
            ELSE Null
    ELSE Null

\* the marker test of decodeMessage applied to the decoded text
MarkerSearch(extractedText) ==
    IF Includes(extractedText, START) /\ Includes(extractedText, END)
    THEN LET startIndex == IndexOf(extractedText, START) + 9
             endIndex == IndexOf(extractedText, END)
         IN IF endIndex > startIndex
            THEN Found(Substring(extractedText, startIndex, endIndex))
            ELSE Null
    ELSE Null

-----------------------------------------------------------------------------
(* Byte and index arithmetic of the two loops *)

\* an index that packs three bytes per pixel, forgetting the alpha byte
dataIndex_Packed(p, c) == p * 3 + c

\* pixelIndex * 4 + channel in encodeMessage
dataIndex(p, c) == p * 4 + c

\* data[dataIndex] | bit: the old least significant bit is not cleared
EmbedByte_NoClear(b, bit) == IF b % 2 = 1 THEN b ELSE b + bit

\* (data[dataIndex] & 0xfe) | bit
EmbedByte(b, bit) == (b - (b % 2)) + bit

\* an extractor that walks the channels blue, green, red
decDataIndex_BGR(p, c) == p * 4 + (2 - c)

\* an extractor that takes the buffer to hold three bytes per pixel
decDataIndex_Packed(p, c) == p * 3 + c

\* pixelIndex * 4 + channel in decodeMessage
decDataIndex(p, c) == p * 4 + c

\* data[dataIndex] & 0x01
ExtractLSB(b) == b % 2

\* a scan bound without the ceiling: data.length / 4
maxPixels_NoCeiling(d) == Len(d) \div 4

\* Math.min(data.length / 4, 100000)
maxPixels(d) ==
    IF Len(d) \div 4 < MaxScanPixels THEN Len(d) \div 4 ELSE MaxScanPixels

\* the test that guards the marker search inside the extraction loop
AtByteBoundary(b) == Len(b) % 8 = 0 /\ Len(b) >= 8 * 9

-----------------------------------------------------------------------------
(* The component state after construction *)

\* null, where the other values are strings
NULL == "null"

\* a file is its identity and "." + name.split(".").pop().toLowerCase()
\* without the dot; NoFile stands for null
NoFile == [id |-> "none", ext |-> NULL]

\* an encoded URL is known by the file, media type and extension its
\* encoder run worked with; NoUrl stands for null
NoUrl == [file |-> NoFile, mediaType |-> NULL, ext |-> NULL]

\* the useState initial values
AppInit ==
    /\ activeTab = "encode"
    /\ mediaType = "image"
    /\ uiMessage = <<>>
    /\ selectedFile = NoFile
    /\ selectedFileExtension = NULL
    /\ previewUrl = NoFile
    /\ encodedMediaUrl = NoUrl
    /\ decodedMessage = Null
    /\ isProcessing = FALSE
    /\ error = NULL
    /\ runs = <<>>

-----------------------------------------------------------------------------
(* Inputs *)

\* '<', 'A' and a character whose code needs nine bits
Alphabet == {60, 65, 256}

Widths == 45..MaxWidth

Heights == {1, 2}

\* byte i of a source image is (base + stride * i) mod 256
Fills == {<<255, 0>>, <<17, 37>>}

FillByte(f, i) == (f[1] + f[2] * (i - 1)) % 256

Fill(f, n) == [i \in 1..n |-> FillByte(f, i)]

SpecialMessages ==
    { <<65>> \o END \o <<66>>,  \* "A<<END>>B"
      END \o <<65>>,            \* "<<END>>A"
      START,                    \* "<<START>>"
      <<33089>> }               \* one character whose 16 bits read as two

Messages ==
    UNION {[1..n -> Alphabet] : n \in 0..MaxMsgLen} \cup SpecialMessages

-----------------------------------------------------------------------------
(* The codec: one encodeMessage call followed by one decodeMessage call on *)
(* the buffer it leaves                                                    *)

NoSearch == text = <<>> /\ searchResult = Pending

Init ==
    /\ width \in Widths
    /\ height \in Heights
    /\ message \in Messages
    /\ orig \in {Fill(f, 4 * width * height) : f \in Fills}
    /\ data = orig
    /\ binaryMessage = <<>>
    /\ messageBitIndex = 0
    /\ pixelIndex = 0
    /\ channel = 0
    /\ encStatus = "none"
    /\ decBinaryMessage = <<>>
    /\ decPixelIndex = 0
    /\ decChannel = 0
    /\ decodeResult = Pending
    /\ pc = "idle"
    /\ NoSearch
    /\ AppInit

\* an encoder that writes the first bit before it tests the capacity
EncodeStart_WriteThenCheck ==
    /\ pc = "idle"
    /\ binaryMessage' = FrameBits(messageWithMarker(message))
    /\ pixelIndex' = 0
    /\ IF TooLarge(binaryMessage', width, height)
       THEN /\ data' = [data EXCEPT ![dataIndex(0, 0) + 1] =
                            EmbedByte(@, binaryMessage'[1])]
            /\ messageBitIndex' = 1
            /\ channel' = 1
            /\ encStatus' = "rejected"
            /\ pc' = "encoded"
       ELSE /\ messageBitIndex' = 0
            /\ channel' = 0
            /\ encStatus' = "none"
            /\ pc' = "embed"
            /\ UNCHANGED data
    /\ UNCHANGED <<width, height, orig, message, decBinaryMessage,
                   decPixelIndex, decChannel, decodeResult, text,
                   searchResult>>
    /\ UNCHANGED appVars

\* encodeMessage up to the first iteration of the embedding loop: framing
\* and the capacity check
EncodeStart ==
    /\ pc = "idle"
    /\ binaryMessage' = FrameBits(messageWithMarker(message))
    /\ messageBitIndex' = 0
    /\ pixelIndex' = 0
    /\ channel' = 0
    /\ IF TooLarge(binaryMessage', width, height)
       THEN encStatus' = "rejected" /\ pc' = "encoded"
       ELSE IF 0 < Len(data) \div 4
            THEN encStatus' = "none" /\ pc' = "embed"
            ELSE encStatus' = "resolved" /\ pc' = "encoded"
    /\ UNCHANGED <<width, height, orig, data, message, decBinaryMessage,
                   decPixelIndex, decChannel, decodeResult, text,
                   searchResult>>
    /\ UNCHANGED appVars

\* one iteration of the channel loop that still has a bit to write
EmbedBit ==
    /\ pc = "embed"
    /\ channel < 3
    /\ messageBitIndex < Len(binaryMessage)
    /\ data' = [data EXCEPT ![dataIndex(pixelIndex, channel) + 1] =
                    EmbedByte(@, binaryMessage[messageBitIndex + 1])]
    /\ messageBitIndex' = messageBitIndex + 1
    /\ channel' = channel + 1
    /\ UNCHANGED <<width, height, orig, message, binaryMessage, pixelIndex,
                   encStatus, decBinaryMessage, decPixelIndex, decChannel,
                   decodeResult, pc, text, searchResult>>
    /\ UNCHANGED appVars

\* an embedder that, once the message is written, clears the least
\* significant bit of every colour byte it has not written
EmbedNextPixel_ZeroFill ==
    /\ pc = "embed"
    /\ (channel >= 3 \/ messageBitIndex >= Len(binaryMessage))
    /\ IF messageBitIndex >= Len(binaryMessage)
       THEN /\ pc' = "encoded"
            /\ encStatus' = "resolved"
            /\ data' = [i \in 1..Len(data) |->
                            IF /\ (i - 1) % 4 < 3
                               /\ 3 * ((i - 1) \div 4) + ((i - 1) % 4)
                                      >= messageBitIndex
                            THEN data[i] - (data[i] % 2)
                            ELSE data[i]]
            /\ UNCHANGED <<pixelIndex, channel>>
       ELSE /\ pixelIndex' = pixelIndex + 1
            /\ UNCHANGED data
            /\ IF pixelIndex + 1 < Len(data) \div 4
               THEN pc' = "embed" /\ channel' = 0 /\ UNCHANGED encStatus
               ELSE pc' = "encoded" /\ encStatus' = "resolved"
                    /\ UNCHANGED channel
    /\ UNCHANGED <<width, height, orig, message, binaryMessage,
                   messageBitIndex, decBinaryMessage, decPixelIndex,
                   decChannel, decodeResult, text, searchResult>>
    /\ UNCHANGED appVars

\* the channel loop ends (three channels done, or break) and the pixel loop
\* either breaks, advances, or runs out of pixels
EmbedNextPixel ==
    /\ pc = "embed"
    /\ (channel >= 3 \/ messageBitIndex >= Len(binaryMessage))
    /\ IF messageBitIndex >= Len(binaryMessage)
       THEN /\ pc' = "encoded"
            /\ encStatus' = "resolved"
            /\ UNCHANGED <<pixelIndex, channel>>
       ELSE /\ pixelIndex' = pixelIndex + 1
            /\ IF pixelIndex + 1 < Len(data) \div 4
               THEN pc' = "embed" /\ channel' = 0 /\ UNCHANGED encStatus
               ELSE pc' = "encoded" /\ encStatus' = "resolved"
                    /\ UNCHANGED channel
    /\ UNCHANGED <<width, height, orig, data, message, binaryMessage,
                   messageBitIndex, decBinaryMessage, decPixelIndex,
                   decChannel, decodeResult, text, searchResult>>
    /\ UNCHANGED appVars

\* decodeMessage up to the first iteration of the extraction loop
DecodeStart ==
    /\ pc = "encoded"
    /\ decBinaryMessage' = <<>>
    /\ decPixelIndex' = 0
    /\ decChannel' = 0
    /\ IF 0 < maxPixels(data)
       THEN pc' = "extract" /\ UNCHANGED decodeResult
       ELSE pc' = "decoded" /\ decodeResult' = Null
    /\ UNCHANGED <<width, height, orig, data, message, binaryMessage,
                   messageBitIndex, pixelIndex, channel, encStatus, text,
                   searchResult>>
    /\ UNCHANGED appVars

\* a channel loop that returns a match only after the pixel is read through
ExtractBit_ReadsOn ==
    /\ pc = "extract"
    /\ decChannel < 3
    /\ LET bit == ExtractLSB(data[decDataIndex(decPixelIndex, decChannel) + 1])
           bits == decBinaryMessage \o <<bit>>
           found == IF AtByteBoundary(bits)
                    THEN MarkerSearch(extractTextFromBinary(bits))
                    ELSE Null
           rest == [j \in 1..(2 - decChannel) |->
                       ExtractLSB(data[decDataIndex(decPixelIndex,
                                                    decChannel + j) + 1])]
       IN IF found.kind = "message"
          THEN /\ decBinaryMessage' = bits \o rest
               /\ decodeResult' = found
               /\ pc' = "decoded"
               /\ decChannel' = 2
          ELSE /\ decBinaryMessage' = bits
               /\ decChannel' = decChannel + 1
               /\ UNCHANGED <<decodeResult, pc>>
    /\ UNCHANGED <<width, height, orig, data, message, binaryMessage,
                   messageBitIndex, pixelIndex, channel, encStatus,
                   decPixelIndex, text, searchResult>>
    /\ UNCHANGED appVars

\* one iteration of the channel loop of decodeMessage: read a bit and, at a
\* byte boundary, search the text decoded so far (off a byte boundary the
\* loop body skips the search, as a search of the empty text does); the
\* locals of the loop body are bound once each
ExtractBit ==
    /\ pc = "extract"
    /\ decChannel < 3
    /\ \E bits \in {decBinaryMessage \o
             <<ExtractLSB(data[decDataIndex(decPixelIndex, decChannel) + 1])>>} :
       \E extractedText \in {IF AtByteBoundary(bits)
                              THEN extractTextFromBinary(bits)
                              ELSE <<>>} :
       \E found \in {MarkerSearch(extractedText)} :
          /\ decBinaryMessage' = bits
          /\ IF found.kind = "message"
             THEN /\ decodeResult' = found
                  /\ pc' = "decoded"
                  /\ UNCHANGED decChannel
             ELSE /\ decChannel' = decChannel + 1
                  /\ UNCHANGED <<decodeResult, pc>>
    /\ UNCHANGED <<width, height, orig, data, message, binaryMessage,
                   messageBitIndex, pixelIndex, channel, encStatus,
                   decPixelIndex, text, searchResult>>
    /\ UNCHANGED appVars

\* a pixel loop that falls off its end without resolving the promise
ExtractNextPixel_NoResolve ==
    /\ pc = "extract"
    /\ decChannel >= 3
    /\ decPixelIndex' = decPixelIndex + 1
    /\ IF decPixelIndex + 1 < maxPixels(data)
       THEN decChannel' = 0 /\ pc' = pc
       ELSE pc' = "scanned" /\ UNCHANGED decChannel
    /\ UNCHANGED <<width, height, orig, data, message, binaryMessage,
                   messageBitIndex, pixelIndex, channel, encStatus,
                   decBinaryMessage, decodeResult, text, searchResult>>
    /\ UNCHANGED appVars

\* the channel loop of decodeMessage ends and the pixel loop advances, or
\* runs out of pixels and resolves with null
ExtractNextPixel ==
    /\ pc = "extract"
    /\ decChannel >= 3
    /\ decPixelIndex' = decPixelIndex + 1
    /\ IF decPixelIndex + 1 < maxPixels(data)
       THEN decChannel' = 0 /\ UNCHANGED <<decodeResult, pc>>
       ELSE decodeResult' = Null /\ pc' = "decoded" /\ UNCHANGED decChannel
    /\ UNCHANGED <<width, height, orig, data, message, binaryMessage,
                   messageBitIndex, pixelIndex, channel, encStatus,
                   decBinaryMessage, text, searchResult>>
    /\ UNCHANGED appVars

Next ==
    \/ EncodeStart
    \/ EmbedBit
    \/ EmbedNextPixel
    \/ DecodeStart
    \/ ExtractBit
    \/ ExtractNextPixel

Spec == Init /\ [][Next]_vars

-----------------------------------------------------------------------------
(* The capacity example of the specification: a 10 x 10 image and messages  *)
(* of 20, 21 and 22 one-byte characters                                     *)

ExampleMessages == {[i \in 1..n |-> 65] : n \in 20..22}

InitExample ==
    /\ width = 10
    /\ height = 10
    /\ message \in ExampleMessages
    /\ orig \in {Fill(f, 4 * width * height) : f \in Fills}
    /\ data = orig
    /\ binaryMessage = <<>>
    /\ messageBitIndex = 0
    /\ pixelIndex = 0
    /\ channel = 0
    /\ encStatus = "none"
    /\ decBinaryMessage = <<>>
    /\ decPixelIndex = 0
    /\ decChannel = 0
    /\ decodeResult = Pending
    /\ pc = "idle"
    /\ NoSearch
    /\ AppInit

SpecExample == InitExample /\ [][Next]_vars

-----------------------------------------------------------------------------
(* The marker search alone, applied to texts built from the markers and     *)
(* from fragments of them                                                   *)

MaxPieces == 4

Pieces == {START, END, <<60>>, <<62>>, <<65>>, SubSeq(END, 1, 6)}

RECURSIVE Concat(_)
Concat(ps) == IF ps = <<>> THEN <<>> ELSE ps[1] \o Concat(Tail(ps))

Texts == {Concat(ps) : ps \in UNION {[1..n -> Pieces] : n \in 0..MaxPieces}}

InitSearch ==
    /\ text \in Texts
    /\ searchResult = Pending
    /\ pc = "search"
    /\ width = 1
    /\ height = 1
    /\ orig = Fill(<<255, 0>>, 4)
    /\ data = orig
    /\ message = <<>>
    /\ binaryMessage = <<>>
    /\ messageBitIndex = 0
    /\ pixelIndex = 0
    /\ channel = 0
    /\ encStatus = "none"
    /\ decBinaryMessage = <<>>
    /\ decPixelIndex = 0
    /\ decChannel = 0
    /\ decodeResult = Pending
    /\ AppInit

\* the marker test of decodeMessage on a given text
SearchMarkers ==
    /\ pc = "search"
    /\ searchResult' = MarkerSearch(text)
    /\ pc' = "searched"
    /\ UNCHANGED <<width, height, orig, data, message, binaryMessage,
                   messageBitIndex, pixelIndex, channel, encStatus,
                   decBinaryMessage, decPixelIndex, decChannel, decodeResult,
                   text>>
    /\ UNCHANGED appVars

NextSearch == SearchMarkers

SpecSearch == InitSearch /\ [][NextSearch]_vars

-----------------------------------------------------------------------------
(* Vocabulary of the properties *)

\* the buffer index of scan position k: pixel k div 3, channel k mod 3
ScanIndex(k) == 4 * (k \div 3) + (k % 3)

\* the 8 bits of v, most significant first
Byte8(v) == [j \in 1..8 |-> (v \div (2 ^ (8 - j))) % 2]

OneByteChars(m) == \A i \in 1..Len(m) : m[i] \in 0..255

Accepted == pc # "idle" /\ encStatus # "rejected"

\* text is "<<START>>" + payload + "<<END>>"
IsFramed(t) ==
    /\ Len(t) >= Len(START) + Len(END)
    /\ SubSeq(t, 1, Len(START)) = START
    /\ SubSeq(t, Len(t) - Len(END) + 1, Len(t)) = END

Payload(t) == SubSeq(t, Len(START) + 1, Len(t) - Len(END))

MarkerFree(m) == ~Includes(m, START) /\ ~Includes(m, END)

-----------------------------------------------------------------------------
(* C1 as stated: for every buffer and every message whose framed bits fit   *)
(* the image, decoding the encoded buffer returns exactly the message.      *)
C1_RoundTripEveryMessage ==
    (pc = "decoded" /\ Len(binaryMessage) <= width * height * 3)
        => decodeResult = Found(message)

(* C1 amended: for every buffer and every non-empty message of characters   *)
(* with codes below 256 that does not contain "<<END>>" and whose framed    *)
(* bits fit the pixels the decoder scans (at most 100000 of them), decoding *)
(* the encoded buffer returns exactly the message.                          *)
C1_RoundTrip ==
    ( /\ pc = "decoded"
      /\ Len(binaryMessage) <= width * height * 3
      /\ Len(binaryMessage) <= maxPixels(data) * 3
      /\ message # <<>>
      /\ OneByteChars(message)
      /\ ~Includes(message, END) )
        => decodeResult = Found(message)

C1_Witness ==
    /\ pc = "decoded"
    /\ encStatus = "resolved"
    /\ Len(message) >= 2
    /\ OneByteChars(message)
    /\ ~Includes(message, END)
    /\ data # orig
    /\ decodeResult = Found(message)

(* C2: encodeMessage rejects exactly when the framed bit string is longer   *)
(* than width * height * 3; an exact fit is accepted, and an accepted       *)
(* message is written whole.                                                *)
C2_CapacityGate ==
    /\ pc # "idle" =>
          ((encStatus = "rejected") <=>
              (Len(binaryMessage) > width * height * 3))
    /\ encStatus = "resolved" => messageBitIndex = Len(binaryMessage)

C2_Witness ==
    /\ encStatus = "resolved"
    /\ Len(binaryMessage) = width * height * 3

(* C3 as stated: on a 10 x 10 image a message of one-byte characters is     *)
(* accepted exactly when it has at most 20 characters.                      *)
C3_Max20Characters ==
    (pc # "idle" /\ width = 10 /\ height = 10 /\ OneByteChars(message))
        => (Accepted <=> Len(message) <= 20)

(* C3 amended: on a 10 x 10 image (capacity 300 bits) the markers add 16    *)
(* bytes to the frame, so a message of one-byte characters is accepted      *)
(* exactly when it has at most 21 characters.                               *)
C3_Max21Characters ==
    (pc # "idle" /\ width = 10 /\ height = 10 /\ OneByteChars(message))
        => /\ Len(binaryMessage) = 8 * (Len(message) + 16)
           /\ Accepted <=> Len(message) <= 21

C3_Witness ==
    /\ width = 10
    /\ height = 10
    /\ Len(message) = 21
    /\ OneByteChars(message)
    /\ encStatus = "resolved"

(* C4: when encodeMessage rejects a message as too large, every byte of the *)
(* pixel buffer has the value it had before the call.                       *)
C4_RejectBeforeWrite == encStatus = "rejected" => data = orig

C4_Witness ==
    /\ encStatus = "rejected"
    /\ Len(binaryMessage) > width * height * 3
    /\ pc = "decoded"

(* C5: the framed bit string has 8 * (length(message) + 16) bits and its    *)
(* i-th group of 8 bits is the MSB-first expansion of the i-th character    *)
(* code of the frame mod 256, also for codes of 256 and more.               *)
C5_FrameEncoding ==
    pc # "idle" =>
        /\ Len(binaryMessage) = 8 * (Len(message) + 16)
        /\ \A i \in 1..(Len(message) + 16) :
              SubSeq(binaryMessage, 8 * (i - 1) + 1, 8 * i)
                  = Byte8(messageWithMarker(message)[i] % 256)

(* C6: after a successful embed of n bits, the byte at scan position k < n  *)
(* has least significant bit equal to bit k and the upper 7 bits of the     *)
(* original byte; all n bits are consumed.                                  *)
C6_EmbeddingPlacement ==
    encStatus = "resolved" =>
        /\ messageBitIndex = Len(binaryMessage)
        /\ \A k \in 0..(Len(binaryMessage) - 1) :
              /\ data[ScanIndex(k) + 1] % 2 = binaryMessage[k + 1]
              /\ data[ScanIndex(k) + 1] \div 2 = orig[ScanIndex(k) + 1] \div 2

C6_Witness ==
    /\ encStatus = "resolved"
    /\ Len(binaryMessage) > 0
    /\ \E k \in 0..(Len(binaryMessage) - 1) :
          data[ScanIndex(k) + 1] # orig[ScanIndex(k) + 1]
    /\ \E k \in 0..(Len(binaryMessage) - 1) :
          data[ScanIndex(k) + 1] = orig[ScanIndex(k) + 1]

(* C7: after embedding n bits, every red, green or blue byte at a scan      *)
(* position k >= n has exactly its original value.                          *)
C7_NonDestructiveExcess ==
    encStatus = "resolved" =>
        \A k \in Len(binaryMessage)..(width * height * 3 - 1) :
            data[ScanIndex(k) + 1] = orig[ScanIndex(k) + 1]

C7_Witness ==
    /\ encStatus = "resolved"
    /\ Len(binaryMessage) + 3 < width * height * 3
    /\ orig[ScanIndex(Len(binaryMessage)) + 1] % 2 = 1
    /\ data # orig

(* C8: in every state of an encodeMessage call, accepted or rejected, every *)
(* alpha byte (index 4 * p + 3) equals its value before the call, and the   *)
(* buffer keeps its length width * height * 4.                              *)
C8_AlphaImmutable ==
    /\ Len(data) = Len(orig)
    /\ Len(data) = width * height * 4
    /\ \A p \in 0..(width * height - 1) : data[4 * p + 3 + 1] = orig[4 * p + 3 + 1]

C8_Witness ==
    /\ encStatus = "resolved"
    /\ messageBitIndex > 3
    /\ data # orig

(* C9 as stated: for every message without "<<START>>" and "<<END>>", the   *)
(* empty message included, the marker search on the framed text returns the *)
(* message.                                                                 *)
C9_UnframeEveryMessage ==
    (pc = "searched" /\ IsFramed(text) /\ MarkerFree(Payload(text)))
        => searchResult = Found(Payload(text))

(* C9 amended: for every non-empty message without "<<START>>" and          *)
(* "<<END>>", the marker search on the framed text returns the message.     *)
C9_UnframeNonEmpty ==
    ( /\ pc = "searched"
      /\ IsFramed(text)
      /\ Payload(text) # <<>>
      /\ MarkerFree(Payload(text)) )
        => searchResult = Found(Payload(text))

C9_Witness ==
    /\ pc = "searched"
    /\ IsFramed(text)
    /\ Len(Payload(text)) >= 6
    /\ MarkerFree(Payload(text))
    /\ searchResult = Found(Payload(text))

(* C10: an "<<END>>" lying before the first "<<START>>" does not prevent    *)
(* the search from returning the text between that "<<START>>" and the      *)
(* first "<<END>>" after it.                                                *)
C10_EndAfterStart ==
    pc = "searched" =>
        LET s == IndexOf(text, START)
            ends == {e \in 0..(Len(text) - Len(END)) :
                        /\ e > s + Len(START)
                        /\ SubSeq(text, e + 1, e + Len(END)) = END}
        IN (s # -1 /\ ends # {}) =>
              LET e == CHOOSE x \in ends : \A y \in ends : x <= y
              IN (\A y \in 0..(e - 1) :
                      y >= s + Len(START)
                          => SubSeq(text, y + 1, y + Len(END)) # END)
                   => searchResult = Found(Substring(text, s + Len(START), e))

-----------------------------------------------------------------------------
(* decodeMessage near the scan ceiling: images of about 100000 pixels whose *)
(* least significant bits hold no marker, taken up in the last iterations   *)
(* of the pixel loop with the bits of the earlier pixels accumulated        *)

CeilingLookback == 5

CeilingDims == {<<399, 250>>, <<400, 250>>, <<401, 250>>}

InitCeiling ==
    /\ \E d \in CeilingDims : width = d[1] /\ height = d[2]
    /\ \E f \in Fills :
          /\ orig = Fill(f, 4 * width * height)
          /\ decPixelIndex \in
                LET last == IF width * height < MaxScanPixels
                            THEN width * height ELSE MaxScanPixels
                IN (last - CeilingLookback)..(last - 1)
          /\ decBinaryMessage =
                [k \in 1..(3 * decPixelIndex) |->
                    ExtractLSB(FillByte(f,
                        decDataIndex((k - 1) \div 3, (k - 1) % 3) + 1))]
    /\ data = orig
    /\ message = <<>>
    /\ binaryMessage = <<>>
    /\ messageBitIndex = 0
    /\ pixelIndex = 0
    /\ channel = 0
    /\ encStatus = "none"
    /\ decChannel = 0
    /\ decodeResult = Pending
    /\ pc = "extract"
    /\ NoSearch
    /\ AppInit

NextScan ==
    \/ ExtractBit
    \/ ExtractNextPixel

SpecCeiling == InitCeiling /\ [][NextScan]_vars

(* C11: decodeMessage reads no pixel whose index is 100000 or more, and     *)
(* when no marker pair was matched within the first min(pixel count,        *)
(* 100000) pixels it resolves with null after exactly those pixels.         *)
C11_ScanCeiling ==
    /\ pc = "extract" =>
          /\ decPixelIndex < MaxScanPixels
          /\ decPixelIndex < width * height
          /\ Len(decBinaryMessage) = 3 * decPixelIndex + decChannel
    /\ pc = "decoded" =>
          /\ decodeResult.kind \in {"null", "message"}
          /\ decodeResult = Null =>
                /\ decPixelIndex =
                      (IF width * height < 100000
                       THEN width * height ELSE 100000)
                /\ Len(decBinaryMessage) = 3 * decPixelIndex

C11_Witness ==
    /\ pc = "decoded"
    /\ decodeResult = Null
    /\ width * height > 100000
    /\ decPixelIndex = 100000
    /\ Len(decBinaryMessage) = 300000

-----------------------------------------------------------------------------
(* decodeMessage alone, on buffers that encodeMessage did not write: the    *)
(* least significant bits hold a text built from markers, whole frames and  *)
(* other characters, followed by the bits of the fill                       *)

MaxDecodePieces == 2

DecodePieces ==
    { START, END, <<67>>,
      messageWithMarker(<<65>>),        \* "<<START>>A<<END>>"
      messageWithMarker(<<66, 67>>) }   \* "<<START>>BC<<END>>"

DecodeTexts ==
    {Concat(ps) : ps \in UNION {[1..n -> DecodePieces] : n \in 0..MaxDecodePieces}}

\* 1, 3, 24 and 100 pixels: 3, 9, 72 and 300 usable bits
DecodeDims == {<<1, 1>>, <<3, 1>>, <<8, 3>>, <<10, 10>>}

\* a buffer of n bytes of fill f whose colour bytes carry bits, in scan
\* order, as far as they go
BufferWith(f, n, bits) ==
    [i \in 1..n |->
        LET k == 3 * ((i - 1) \div 4) + ((i - 1) % 4)
        IN IF (i - 1) % 4 < 3 /\ k < Len(bits)
           THEN EmbedByte(FillByte(f, i), bits[k + 1])
           ELSE FillByte(f, i)]

InitDecode ==
    /\ \E d \in DecodeDims : width = d[1] /\ height = d[2]
    /\ \E f \in Fills, t \in DecodeTexts :
          orig = BufferWith(f, 4 * width * height, FrameBits(t))
    /\ data = orig
    /\ message = <<>>
    /\ binaryMessage = <<>>
    /\ messageBitIndex = 0
    /\ pixelIndex = 0
    /\ channel = 0
    /\ encStatus = "none"
    /\ decBinaryMessage = <<>>
    /\ decPixelIndex = 0
    /\ decChannel = 0
    /\ decodeResult = Pending
    /\ pc = "encoded"
    /\ NoSearch
    /\ AppInit

NextDecode ==
    \/ DecodeStart
    \/ ExtractBit
    \/ ExtractNextPixel

SpecDecode == InitDecode /\ [][NextDecode]_vars

\* the loops of decodeMessage are synchronous code: a started call runs on
FairDecode == SpecDecode /\ WF_vars(NextDecode)

-----------------------------------------------------------------------------
(* The StealthyEncoder component (src/App.tsx): its event handlers, and the *)
(* continuations of handleEncode and handleDecode after each await. A       *)
(* handler runs to its first await in one step; React commits the state     *)
(* updates of a step together. The image load, the encoders and the         *)
(* decoders are awaited operations whose outcome the component does not     *)
(* choose.                                                                  *)

MaxRuns == 1

SUPPORTED_EXTENSIONS ==
    [image |-> {"png", "jpg", "jpeg", "webp"},
     audio |-> {"mp3", "wav", "ogg", "m4a"},
     video |-> {"mp4", "webm"}]

Files ==
    { [id |-> "a", ext |-> "png"],
      [id |-> "b", ext |-> "mp3"],
      [id |-> "c", ext |-> "mp4"],
      [id |-> "d", ext |-> "txt"] }

\* the characters String.prototype.trim removes, as far as UiMessages go
Whitespace == {32}

\* "", " " and "A"
UiMessages == {<<>>, <<32>>, <<65>>}

\* message.trim()
Trim(m) ==
    LET kept == {i \in 1..Len(m) : m[i] \notin Whitespace}
    IN IF kept = {}
       THEN <<>>
       ELSE SubSeq(m, CHOOSE i \in kept : \A j \in kept : i <= j,
                      CHOOSE i \in kept : \A j \in kept : j <= i)

EncodeGuardError == "Please select a file and enter a message."

DecodeGuardError == "Please select a file to decode."

UnsupportedError == "Unsupported file format. Please use: ..."

ImageLoadError == "Failed to load image"

ElementError ==
    [audio |-> "Audio element not ready", video |-> "Video element not ready"]

NotFoundError ==
    [image |-> "No hidden message found in this image.",
     audio |-> "No hidden message found in this audio.",
     video |-> "No hidden message found in this video."]

\* the message of an error an awaited operation rejected with, or of the
\* TypeError of reading .src of a null element
RejectedError == "rejected"

\* audioRef.current / videoRef.current is the element renderMediaPreview
\* draws for previewUrl when mediaType is its type
ElementReady(type) == previewUrl # NoFile /\ mediaType = type

\* what the awaited encoder or decoder of a media type can settle with
EncodeOutcomes(type) ==
    IF type = "audio" THEN {"url", "empty", "rejected"} ELSE {"url", "rejected"}

DecodeOutcomes == {"message", "none", "rejected"}

\* a started call: what its closure holds, and the file its codec works on
Run(kind, phase, src) ==
    [kind |-> kind, phase |-> phase, mediaType |-> mediaType,
     previewUrl |-> previewUrl, ext |-> selectedFileExtension,
     message |-> uiMessage, src |-> src]

RemoveAt(q, i) == SubSeq(q, 1, i - 1) \o SubSeq(q, i + 1, Len(q))

\* onClick of the two tab buttons
setActiveTab(tab) ==
    /\ activeTab' = tab
    /\ UNCHANGED <<mediaType, uiMessage, selectedFile, selectedFileExtension,
                   previewUrl, encodedMediaUrl, decodedMessage, isProcessing,
                   error, runs>>
    /\ UNCHANGED codecVars

\* onChange of the textarea
setMessage(m) ==
    /\ uiMessage' = m
    /\ UNCHANGED <<activeTab, mediaType, selectedFile, selectedFileExtension,
                   previewUrl, encodedMediaUrl, decodedMessage, isProcessing,
                   error, runs>>
    /\ UNCHANGED codecVars

\* handleMediaSelect, createMediaPreview included; file = NoFile is a change
\* event without a file
handleMediaSelect(file, mode) ==
    /\ IF file = NoFile
       THEN /\ error' = NULL
            /\ UNCHANGED <<mediaType, selectedFile, selectedFileExtension,
                           previewUrl, encodedMediaUrl, decodedMessage>>
       ELSE IF \A t \in DOMAIN SUPPORTED_EXTENSIONS :
                   file.ext \notin SUPPORTED_EXTENSIONS[t]
       THEN /\ error' = UnsupportedError
            /\ UNCHANGED <<mediaType, selectedFile, selectedFileExtension,
                           previewUrl, encodedMediaUrl, decodedMessage>>
       ELSE /\ error' = NULL
            /\ selectedFileExtension' = file.ext
            /\ mediaType' = CHOOSE t \in DOMAIN SUPPORTED_EXTENSIONS :
                                file.ext \in SUPPORTED_EXTENSIONS[t]
            /\ previewUrl' = file
            /\ IF mode = "encode"
               THEN /\ selectedFile' = file
                    /\ encodedMediaUrl' = NoUrl
                    /\ UNCHANGED decodedMessage
               ELSE /\ decodedMessage' = Null
                    /\ UNCHANGED <<selectedFile, encodedMediaUrl>>
    /\ UNCHANGED <<activeTab, uiMessage, isProcessing, runs>>
    /\ UNCHANGED codecVars

\* a guard of handleEncode that does not trim the message
EncodeGuard_NoTrim == selectedFile = NoFile \/ uiMessage = <<>>

\* !selectedFile || !message.trim()
EncodeGuard == selectedFile = NoFile \/ Trim(uiMessage) = <<>>

\* handleEncode up to its first await
handleEncode ==
    /\ IF EncodeGuard
       THEN /\ error' = EncodeGuardError
            /\ UNCHANGED <<isProcessing, runs>>
       ELSE IF mediaType = "image" \/ ElementReady(mediaType)
       THEN /\ isProcessing' = TRUE
            /\ error' = NULL
            /\ runs' = Append(runs, Run("encode", "load", NoFile))
       ELSE /\ isProcessing' = FALSE
            /\ error' = ElementError[mediaType]
            /\ UNCHANGED runs
    /\ UNCHANGED <<activeTab, mediaType, uiMessage, selectedFile,
                   selectedFileExtension, previewUrl, encodedMediaUrl,
                   decodedMessage>>
    /\ UNCHANGED codecVars

\* handleDecode up to its first await
handleDecode ==
    /\ IF previewUrl = NoFile
       THEN /\ error' = DecodeGuardError
            /\ UNCHANGED <<isProcessing, decodedMessage, runs>>
       ELSE IF mediaType = "image" \/ ElementReady(mediaType)
       THEN /\ isProcessing' = TRUE
            /\ error' = NULL
            /\ decodedMessage' = Null
            /\ runs' = Append(runs, Run("decode", "load", NoFile))
       ELSE /\ isProcessing' = FALSE
            /\ error' = ElementError[mediaType]
            /\ decodedMessage' = Null
            /\ UNCHANGED runs
    /\ UNCHANGED <<activeTab, mediaType, uiMessage, selectedFile,
                   selectedFileExtension, previewUrl, encodedMediaUrl>>
    /\ UNCHANGED codecVars

\* the first await of call i settles: the image loads from the previewUrl of
\* the closure or fails to; the audio or video element is loaded and the
\* codec is handed the element the ref holds now
LoadSettles(i, loaded) ==
    /\ i \in 1..Len(runs)
    /\ runs[i].phase = "load"
    /\ IF runs[i].mediaType = "image"
       THEN IF loaded
            THEN /\ runs' = [runs EXCEPT ![i].phase = "codec",
                                         ![i].src = runs[i].previewUrl]
                 /\ UNCHANGED <<isProcessing, error>>
            ELSE /\ runs' = RemoveAt(runs, i)
                 /\ error' = ImageLoadError
                 /\ isProcessing' = FALSE
       ELSE /\ loaded
            /\ IF ElementReady(runs[i].mediaType)
               THEN /\ runs' = [runs EXCEPT ![i].phase = "codec",
                                            ![i].src = previewUrl]
                    /\ UNCHANGED <<isProcessing, error>>
               ELSE /\ runs' = RemoveAt(runs, i)
                    /\ error' = RejectedError
                    /\ isProcessing' = FALSE
    /\ UNCHANGED <<activeTab, mediaType, uiMessage, selectedFile,
                   selectedFileExtension, previewUrl, encodedMediaUrl,
                   decodedMessage>>
    /\ UNCHANGED codecVars

\* the encoder or decoder of call i settles and the call runs to its end,
\* the finally block included
CodecSettles(i, outcome) ==
    /\ i \in 1..Len(runs)
    /\ runs[i].phase = "codec"
    /\ IF runs[i].kind = "encode"
       THEN /\ outcome \in EncodeOutcomes(runs[i].mediaType)
            /\ encodedMediaUrl' =
                  IF outcome = "url"
                  THEN [file |-> runs[i].src, mediaType |-> runs[i].mediaType,
                        ext |-> runs[i].ext]
                  ELSE encodedMediaUrl
            /\ error' = IF outcome = "rejected" THEN RejectedError ELSE error
            /\ UNCHANGED decodedMessage
       ELSE /\ outcome \in DecodeOutcomes
            /\ decodedMessage' =
                  IF outcome = "message" THEN Found(<<65>>) ELSE decodedMessage
            /\ error' = CASE outcome = "message" -> error
                          [] outcome = "none" -> NotFoundError[runs[i].mediaType]
                          [] OTHER -> RejectedError
            /\ UNCHANGED encodedMediaUrl
    /\ runs' = RemoveAt(runs, i)
    /\ isProcessing' = FALSE
    /\ UNCHANGED <<activeTab, mediaType, uiMessage, selectedFile,
                   selectedFileExtension, previewUrl>>
    /\ UNCHANGED codecVars

\* link.download of handleDownload
DownloadName == <<"stealthy_encoded_", mediaType, ".", selectedFileExtension>>

\* the codec is not running while the component is looked at
CodecIdle ==
    /\ width = 1
    /\ height = 1
    /\ orig = Fill(<<255, 0>>, 4)
    /\ data = orig
    /\ message = <<>>
    /\ binaryMessage = <<>>
    /\ messageBitIndex = 0
    /\ pixelIndex = 0
    /\ channel = 0
    /\ encStatus = "none"
    /\ decBinaryMessage = <<>>
    /\ decPixelIndex = 0
    /\ decChannel = 0
    /\ decodeResult = Pending
    /\ pc = "idle"
    /\ NoSearch

InitApp == AppInit /\ CodecIdle

SwitchTab == \E tab \in {"encode", "decode"} : setActiveTab(tab)

AwaitSettles ==
    \E i \in 1..Len(runs) :
        \/ \E loaded \in BOOLEAN : LoadSettles(i, loaded)
        \/ \E outcome \in {"url", "empty", "message", "none", "rejected"} :
              CodecSettles(i, outcome)

(* The component as the user drives it: a control does what the rendered    *)
(* page lets it do                                                          *)

\* an encode button that is not disabled while a call is in flight
EncodeDisabled_WhileIdle == selectedFile = NoFile \/ Trim(uiMessage) = <<>>

\* disabled={isProcessing || !selectedFile || !message.trim()}
EncodeDisabled ==
    isProcessing \/ selectedFile = NoFile \/ Trim(uiMessage) = <<>>

\* disabled={isProcessing || !previewUrl}
DecodeDisabled == isProcessing \/ previewUrl = NoFile

TypeMessage ==
    /\ activeTab = "encode"
    /\ \E m \in UiMessages : setMessage(m)

SelectFile == \E file \in Files \cup {NoFile} : handleMediaSelect(file, activeTab)

ClickEncode ==
    /\ activeTab = "encode"
    /\ ~EncodeDisabled
    /\ handleEncode

ClickDecode ==
    /\ activeTab = "decode"
    /\ ~DecodeDisabled
    /\ handleDecode

NextApp ==
    \/ SwitchTab
    \/ TypeMessage
    \/ SelectFile
    \/ ClickEncode
    \/ ClickDecode
    \/ AwaitSettles

SpecApp == InitApp /\ [][NextApp]_vars

(* The handlers as functions: each may be called in any state, with at most *)
(* MaxRuns calls in flight                                                  *)

CallSetMessage == \E m \in UiMessages : setMessage(m)

CallMediaSelect ==
    \E file \in Files \cup {NoFile}, mode \in {"encode", "decode"} :
        handleMediaSelect(file, mode)

CallEncode == Len(runs) < MaxRuns /\ handleEncode

CallDecode == Len(runs) < MaxRuns /\ handleDecode

NextHandlers ==
    \/ SwitchTab
    \/ CallSetMessage
    \/ CallMediaSelect
    \/ CallEncode
    \/ CallDecode
    \/ AwaitSettles

SpecHandlers == InitApp /\ [][NextHandlers]_vars

-----------------------------------------------------------------------------
(* Properties of decodeMessage *)

\* the least significant bits of every colour byte of d, in scan order
AllBits(d) ==
    [k \in 1..(3 * (Len(d) \div 4)) |-> d[ScanIndex(k - 1) + 1] % 2]

\* the text of the first n bytes of the bits read so far
TextOfBytes(n) == extractTextFromBinary(SubSeq(decBinaryMessage, 1, 8 * n))

Matched == pc = "decoded" /\ decodeResult.kind = "message"

(* C12: extraction returns at the first byte boundary, of at least 72 bits, *)
(* at which the text read so far holds both markers with the end after the  *)
(* start offset: no earlier boundary matches, no bit is read after the      *)
(* match, and the result is a function of the bits read up to the match, so *)
(* the bytes behind it have no part in it.                                  *)
C12_FirstMatchWins ==
    Matched =>
        /\ Len(decBinaryMessage) = 3 * decPixelIndex + decChannel + 1
        /\ Len(decBinaryMessage) % 8 = 0
        /\ Len(decBinaryMessage) >= 72
        /\ \A k \in 1..Len(decBinaryMessage) :
              decBinaryMessage[k] = data[ScanIndex(k - 1) + 1] % 2
        /\ decodeResult = MarkerSearch(TextOfBytes(Len(decBinaryMessage) \div 8))
        /\ \A n \in 9..(Len(decBinaryMessage) \div 8 - 1) :
              MarkerSearch(TextOfBytes(n)) = Null

\* a match on "A" in a buffer that holds the frame of "BC" behind it
C12_Witness ==
    /\ Matched
    /\ decodeResult = Found(<<65>>)
    /\ Len(decBinaryMessage) < 3 * width * height
    /\ Includes(extractTextFromBinary(AllBits(data)),
                messageWithMarker(<<66, 67>>))

(* C13: extraction is total. A started decodeMessage reads only bytes of    *)
(* the buffer and ends, with a message or with null, on every buffer, the   *)
(* ones with fewer than 72 usable bits included.                            *)
C13_ExtractionTotal ==
    /\ [](/\ (pc = "extract" /\ decChannel < 3) =>
                 decDataIndex(decPixelIndex, decChannel) + 1 \in 1..Len(data)
          /\ pc \in {"encoded", "extract", "decoded"}
          /\ pc = "decoded" => decodeResult.kind \in {"null", "message"}
          /\ pc # "decoded" => decodeResult = Pending)
    /\ <>(pc = "decoded")

\* a buffer of fewer than 72 usable bits, read through and answered with null
C13_Witness ==
    /\ pc = "decoded"
    /\ 3 * width * height < 72
    /\ Len(decBinaryMessage) = 3 * width * height
    /\ decodeResult = Null

(* C14 as stated: every accepted message either decodes to the complete     *)
(* original or is not found, never to another string.                       *)
C14_AllOrNothing ==
    (pc = "decoded" /\ Accepted) => decodeResult \in {Null, Found(message)}

(* C14 amended: every accepted message of characters with codes below 256   *)
(* that does not contain "<<END>>" either decodes to the complete original  *)
(* or is not found, never to another string.                                *)
C14_AllOrNothingOneByte ==
    (pc = "decoded" /\ Accepted /\ OneByteChars(message)
        /\ ~Includes(message, END))
        => decodeResult \in {Null, Found(message)}

\* the accepted message that is not found: the empty one
C14_Witness ==
    /\ pc = "decoded"
    /\ encStatus = "resolved"
    /\ message = <<>>
    /\ data # orig
    /\ decodeResult = Null

(* C15: the decoder reads its k-th bit (from 0) from byte                   *)
(* 4 * (k div 3) + (k mod 3), never an alpha byte, and the bits it extracts *)
(* from an encoded buffer are the embedded bits, one for one, as far as     *)
(* both go.                                                                 *)
C15_SharedScanOrder ==
    /\ (pc = "extract" /\ decChannel < 3) =>
          /\ decDataIndex(decPixelIndex, decChannel)
                 = ScanIndex(Len(decBinaryMessage))
          /\ decDataIndex(decPixelIndex, decChannel) % 4 # 3
    /\ (encStatus = "resolved" /\ pc \in {"extract", "decoded"}) =>
          \A k \in 1..Len(decBinaryMessage) :
              k <= Len(binaryMessage) => decBinaryMessage[k] = binaryMessage[k]

\* a decode that read every embedded bit of a frame of two characters
C15_Witness ==
    /\ encStatus = "resolved"
    /\ pc = "decoded"
    /\ Len(message) = 2
    /\ Len(binaryMessage) >= 144
    /\ Len(decBinaryMessage) >= Len(binaryMessage)
    /\ SubSeq(decBinaryMessage, 1, Len(binaryMessage)) = binaryMessage

(* C16: a returned message m is not empty and holds no "<<END>>"; the bits  *)
(* read are a multiple of 8 and at least 72; and their text holds, at its   *)
(* first "<<START>>", that marker followed at once by m and then "<<END>>". *)
C16_MatchSound ==
    Matched =>
        LET m == decodeResult.value
            t == extractTextFromBinary(decBinaryMessage)
            s == IndexOf(t, START)
        IN /\ Len(m) > 0
           /\ ~Includes(m, END)
           /\ Len(decBinaryMessage) % 8 = 0
           /\ Len(decBinaryMessage) >= 72
           /\ s >= 0
           /\ s + Len(START) + Len(m) + Len(END) <= Len(t)
           /\ SubSeq(t, s + 1, s + Len(START) + Len(m) + Len(END))
                 = START \o m \o END

\* a match whose "<<START>>" is not at the head of the text
C16_Witness ==
    /\ Matched
    /\ IndexOf(extractTextFromBinary(decBinaryMessage), START) > 0
    /\ Len(decodeResult.value) = 2

-----------------------------------------------------------------------------
(* Properties of the component *)

\* empty or made of whitespace only
Blank(m) == \A i \in 1..Len(m) : m[i] \in Whitespace

(* C17: in every reachable state of the component, whatever file selections *)
(* in either tab happen while encode calls are in flight or after they are  *)
(* done, a non-null encodedMediaUrl was made from the file previewUrl       *)
(* refers to, with the current mediaType and selectedFileExtension, which   *)
(* name the download.                                                       *)
C17_EncodedMatchesSelection ==
    encodedMediaUrl # NoUrl =>
        /\ encodedMediaUrl.file = previewUrl
        /\ encodedMediaUrl.mediaType = mediaType
        /\ encodedMediaUrl.ext = selectedFileExtension
        /\ DownloadName = <<"stealthy_encoded_", encodedMediaUrl.mediaType,
                            ".", encodedMediaUrl.ext>>

(* C18: at most one handleEncode or handleDecode call is in flight, and     *)
(* isProcessing is true exactly while one is: a call that ends, by success, *)
(* by an error or by the early return on an empty URL, leaves it false.     *)
C18_SingleOperationInFlight ==
    /\ Len(runs) <= 1
    /\ isProcessing <=> Len(runs) = 1

\* an encode call waits for its encoder while the decode tab shows a file
C18_Witness ==
    /\ isProcessing
    /\ Len(runs) = 1
    /\ runs[1].kind = "encode"
    /\ runs[1].phase = "codec"
    /\ activeTab = "decode"
    /\ previewUrl # NoFile

(* C19: handleEncode called with no selected file, or with a message that   *)
(* is empty or whitespace only, sets the error "Please select a file and    *)
(* enter a message.", starts no encoder and leaves isProcessing and         *)
(* encodedMediaUrl as they are; so no encoder call in flight ever holds     *)
(* such a message.                                                          *)
C19_EncodeGuard ==
    /\ [][(handleEncode /\ (selectedFile = NoFile \/ Blank(uiMessage)))
            => /\ error' = "Please select a file and enter a message."
               /\ UNCHANGED <<isProcessing, encodedMediaUrl, runs>>]_vars
    /\ [](\A i \in 1..Len(runs) :
            runs[i].kind = "encode" => ~Blank(runs[i].message))

\* the guard has answered a whitespace-only message for a selected file
C19_Witness ==
    /\ error = "Please select a file and enter a message."
    /\ selectedFile # NoFile
    /\ uiMessage # <<>>
    /\ Blank(uiMessage)
    /\ ~isProcessing
    /\ runs = <<>>

====
